---- MODULE Spec2Model ----
(***************************************************************************)
(* Project & Resource Tracker (src/app.py): a Streamlit script over an     *)
(* SQLite file with three tables (projects, milestones, resources).        *)
(*                                                                         *)
(* Encoding of the store                                                   *)
(*   db.schema     table name -> sequence of column names (PRAGMA          *)
(*                 table_info order); a table exists iff it is in DOMAIN.  *)
(*   db.projects   set of rows; a row is a function from column name to    *)
(*                 value whose DOMAIN is the set of its non-NULL columns   *)
(*                 (a column of the schema missing from a row is NULL).    *)
(*   db.milestones, db.resources   likewise.                               *)
(*   db.seq        sqlite_sequence: last AUTOINCREMENT id per table.       *)
(* connections is the number of connections get_db_connection has opened   *)
(* and nobody has closed; outcome tells which repository function that     *)
(* writes was called last and whether the call returned or raised.         *)
(* Text that the code only stores and compares for equality is a TLA+      *)
(* string; text that is matched or ordered character by character (ISO     *)
(* dates, LIKE operands) is a tuple of one-character strings.              *)
(***************************************************************************)
EXTENDS Integers, Sequences, FiniteSets, TLC

VARIABLES db, now, delete_confirm, ui, connections, outcome

vars == <<db, now, delete_confirm, ui, connections, outcome>>

----------------------------------------------------------------------------
(* Bounds of the exploration.                                              *)

MaxProjects == 2      \* project rows ever inserted (legacy rows included)
MaxMilestones == 2    \* milestone rows ever inserted
MaxResources == 1     \* resource rows ever inserted
MaxClock == 2         \* CURRENT_TIMESTAMP ranges over 1..MaxClock seconds
MaxPending == 1       \* delete buttons left pending at the same time
MaxRows == 3          \* rows ever inserted, the three tables together
MaxOpen == 2          \* connections left open at the same time
MaxDeleteRows == 4    \* rows ever inserted while the delete buttons are explored
MaxDeletePending == 2 \* delete buttons left pending at the same time, there

----------------------------------------------------------------------------
(* Constants of the script.                                                *)

PROJECT_STATUSES ==
    <<"New Request", "Brainstorming", "Scope Ready", "In Development",
      "Dev Completed", "Handover to QA", "QA End", "Stakeholder Demo",
      "Go-Live", "Delayed">>

MILESTONE_TYPES ==
    <<"DEV_START", "DEV_COMPLETE", "HANDOVER_TO_QA", "QA_END",
      "STAKEHOLDER_DEMO", "GO_LIVE">>

ROLES == <<"FE", "BE", "iOS", "Android", "QA">>

PHASES == <<"DEV", "QA">>

PRODUCTS == <<"Imran Siddiqui", "Angelia Agustina", "Heba Hosny">>

Range(s) == {s[i] : i \in DOMAIN s}

\* Python's None where the other values of the variable are strings.
None == "None"

\* Python's None where the other values of the variable are dates.
NoDate == <<>>

----------------------------------------------------------------------------
(* Characters, dates and text comparison.                                  *)

Digits == <<"0", "1", "2", "3", "4", "5", "6", "7", "8", "9">>

\* date.isoformat(): YYYY-MM-DD, zero padded.  A date is <<year, month, day>>.
Pad2(n) == <<Digits[(n \div 10) + 1], Digits[(n % 10) + 1]>>

Pad4(n) == Pad2(n \div 100) \o Pad2(n % 100)

\* Mutant of isoformat: month and day are written without a leading zero.
isoformat_unpadded(d) ==
    LET short(n) == IF n < 10 THEN <<Digits[n + 1]>> ELSE Pad2(n)
    IN  Pad4(d[1]) \o <<"-">> \o short(d[2]) \o <<"-">> \o short(d[3])

isoformat(d) == Pad4(d[1]) \o <<"-">> \o Pad2(d[2]) \o <<"-">> \o Pad2(d[3])

\* Python's date.__gt__: chronological comparison of two date objects.
DateGt(a, b) ==
    \/ a[1] > b[1]
    \/ a[1] = b[1] /\ a[2] > b[2]
    \/ a[1] = b[1] /\ a[2] = b[2] /\ a[3] > b[3]

\* Code point of a character of an ISO date (SQLite BINARY collation).
CharCode(c) ==
    IF c = "-" THEN 45
    ELSE 48 + (CHOOSE k \in 0..9 : Digits[k + 1] = c)

\* a < b for TEXT values under the BINARY collation (memcmp, then length).
RECURSIVE TextLess(_, _)
TextLess(a, b) ==
    IF b = <<>> THEN FALSE
    ELSE IF a = <<>> THEN TRUE
    ELSE IF CharCode(Head(a)) # CharCode(Head(b))
         THEN CharCode(Head(a)) < CharCode(Head(b))
    ELSE TextLess(Tail(a), Tail(b))

----------------------------------------------------------------------------
(* SQLite's LIKE operator.                                                 *)

UpperCase ==
    <<"A", "B", "C", "D", "E", "F", "G", "H", "I", "J", "K", "L", "M",
      "N", "O", "P", "Q", "R", "S", "T", "U", "V", "W", "X", "Y", "Z">>

LowerCase ==
    <<"a", "b", "c", "d", "e", "f", "g", "h", "i", "j", "k", "l", "m",
      "n", "o", "p", "q", "r", "s", "t", "u", "v", "w", "x", "y", "z">>

\* The lower-case letter of each upper-case ASCII letter.
ToLower ==
    [c \in Range(UpperCase) |-> LowerCase[CHOOSE k \in 1..26 : UpperCase[k] = c]]

\* LIKE folds the case of ASCII letters only.
Fold(c) == IF c \in DOMAIN ToLower THEN ToLower[c] ELSE c

\* The characters of the strings that reach a LIKE: the stored products and
\* the text typed into "Filter by Product".
Chars ==
    [s \in {"", "Imran Siddiqui", "Angelia Agustina", "Heba Hosny",
            "im", "Heba", "_", "a%s", "ny"} |->
        CASE s = "" -> <<>>
          [] s = "Imran Siddiqui" ->
                <<"I", "m", "r", "a", "n", " ", "S", "i", "d", "d", "i", "q",
                  "u", "i">>
          [] s = "Angelia Agustina" ->
                <<"A", "n", "g", "e", "l", "i", "a", " ", "A", "g", "u", "s",
                  "t", "i", "n", "a">>
          [] s = "Heba Hosny" ->
                <<"H", "e", "b", "a", " ", "H", "o", "s", "n", "y">>
          [] s = "im" -> <<"i", "m">>
          [] s = "Heba" -> <<"H", "e", "b", "a">>
          [] s = "_" -> <<"_">>
          [] s = "a%s" -> <<"a", "%", "s">>
          [] s = "ny" -> <<"n", "y">>]

\* patternCompare of SQLite for LIKE without ESCAPE: % matches any run of
\* characters, _ exactly one, any other character itself up to ASCII case.
RECURSIVE Like(_, _)
Like(text, pattern) ==
    IF pattern = <<>> THEN text = <<>>
    ELSE IF Head(pattern) = "%"
         THEN \/ Like(text, Tail(pattern))
              \/ text # <<>> /\ Like(Tail(text), pattern)
    ELSE IF text = <<>> THEN FALSE
    ELSE IF Head(pattern) = "_" THEN Like(Tail(text), Tail(pattern))
    ELSE /\ Fold(Head(text)) = Fold(Head(pattern))
         /\ Like(Tail(text), Tail(pattern))

----------------------------------------------------------------------------
(* Rows and schema.                                                        *)

Tables == {"projects", "milestones", "resources"}

\* CREATE TABLE projects of init_db: the columns of a store created by this
\* version of the script.
ProjectColumns ==
    <<"id", "name", "product", "business_owner", "scrum_master", "platforms",
      "planned_go_live", "status", "delivery_month", "notes", "created_at">>

MilestoneColumns ==
    <<"id", "project_id", "milestone_type", "planned_date", "revised_date",
      "delay_reason", "created_at">>

ResourceColumns ==
    <<"id", "employee_name", "role", "project_id", "phase", "allocation_pct",
      "end_rule", "created_at">>

\* The columns init_db migrates; a projects table written by an earlier
\* version of the script has any subset of them.
MigratedColumns ==
    {"product_squad", "product", "scrum_master", "platforms",
     "delivery_month", "notes"}

\* Columns of a projects table of an earlier version that has the columns
\* `present` of MigratedColumns, in the order the tables declare them.
LegacyColumns(present) ==
    LET all == <<"id", "name", "product_squad", "product", "business_owner",
                 "scrum_master", "platforms", "planned_go_live", "status",
                 "delivery_month", "notes", "created_at">>
        Kept(c) == c \notin MigratedColumns \/ c \in present
    IN  SelectSeq(all, Kept)

\* A row is NULL in column c when c is not in its domain.
IsNull(row, c) == c \notin DOMAIN row

\* The row without its NULL entries: `absent` are the columns given as None.
Row(values, absent) == [c \in (DOMAIN values) \ absent |-> values[c]]

Ids(rows) == {r["id"] : r \in rows}

EmptyStore ==
    [schema |-> [t \in {} |-> <<>>], projects |-> {}, milestones |-> {}, resources |-> {},
     seq |-> [t \in Tables |-> 0]]

HasTable(d, t) == t \in DOMAIN d.schema

Columns(d, t) == IF HasTable(d, t) THEN Range(d.schema[t]) ELSE {}

\* CREATE TABLE IF NOT EXISTS t (cols)
CreateTableIfNotExists(d, t, cols) ==
    IF HasTable(d, t) THEN d
    ELSE [d EXCEPT !.schema =
             [u \in (DOMAIN d.schema) \cup {t} |->
                 IF u = t THEN cols ELSE d.schema[u]]]

\* Mutant of RenameColumn: the column is dropped and added anew, empty.
RenameColumn_dropping(d, old, new) ==
    LET ren(c) == IF c = old THEN new ELSE c
        cols == d.schema["projects"]
    IN  [d EXCEPT !.schema["projects"] = [i \in DOMAIN cols |-> ren(cols[i])],
                  !.projects = {[c \in (DOMAIN r) \ {old} |-> r[c]] : r \in @}]

\* ALTER TABLE projects RENAME COLUMN old TO new: the column keeps its place
\* and every row its value.
RenameColumn(d, old, new) ==
    LET ren(c) == IF c = old THEN new ELSE c
        cols == d.schema["projects"]
        renRow(r) ==
            [c \in {ren(k) : k \in DOMAIN r} |->
                IF c = new THEN r[old] ELSE r[c]]
    IN  [d EXCEPT !.schema["projects"] = [i \in DOMAIN cols |-> ren(cols[i])],
                  !.projects = {renRow(r) : r \in d.projects}]

\* ALTER TABLE projects ADD COLUMN c TEXT: appended last, NULL in every row.
AddColumn(d, c) == [d EXCEPT !.schema["projects"] = Append(@, c)]

----------------------------------------------------------------------------
(* Schema creation and migration.                                          *)

\* Mutant of init_db: notes is added without looking at the columns.
init_db_adding_notes(d) ==
    LET d1 == CreateTableIfNotExists(d, "projects", ProjectColumns)
        columns == Range(d1.schema["projects"])
        d2 == IF "product_squad" \in columns /\ "product" \notin columns
              THEN RenameColumn(d1, "product_squad", "product")
              ELSE d1
        d3 == IF "scrum_master" \notin columns
              THEN AddColumn(d2, "scrum_master") ELSE d2
        d4 == IF "platforms" \notin columns
              THEN AddColumn(d3, "platforms") ELSE d3
        d5 == IF "delivery_month" \notin columns
              THEN AddColumn(d4, "delivery_month") ELSE d4
        d6 == AddColumn(d5, "notes")
        d7 == CreateTableIfNotExists(d6, "milestones", MilestoneColumns)
    IN  CreateTableIfNotExists(d7, "resources", ResourceColumns)

init_db(d) ==
    LET d1 == CreateTableIfNotExists(d, "projects", ProjectColumns)
        \* PRAGMA table_info(projects), read once before any ALTER TABLE
        columns == Range(d1.schema["projects"])
        d2 == IF "product_squad" \in columns /\ "product" \notin columns
              THEN RenameColumn(d1, "product_squad", "product")
              ELSE d1
        d3 == IF "scrum_master" \notin columns
              THEN AddColumn(d2, "scrum_master") ELSE d2
        d4 == IF "platforms" \notin columns
              THEN AddColumn(d3, "platforms") ELSE d3
        d5 == IF "delivery_month" \notin columns
              THEN AddColumn(d4, "delivery_month") ELSE d4
        d6 == IF "notes" \notin columns
              THEN AddColumn(d5, "notes") ELSE d5
        d7 == CreateTableIfNotExists(d6, "milestones", MilestoneColumns)
    IN  CreateTableIfNotExists(d7, "resources", ResourceColumns)

----------------------------------------------------------------------------
(* Connections and SQL statements.  A statement yields [ok, db]: ok is     *)
(* FALSE when sqlite3 raises, and then db is the store unchanged.          *)

\* Mutant of get_db_connection: the PRAGMA is left out.
get_db_connection_without_pragma == [foreign_keys |-> FALSE]

\* sqlite3.connect followed by PRAGMA foreign_keys = ON.
get_db_connection == [foreign_keys |-> TRUE]

Raised(d) == [ok |-> FALSE, db |-> d]

Done(d) == [ok |-> TRUE, db |-> d]

\* Mutant of Insert: the id is one more than the largest id stored (INTEGER
\* PRIMARY KEY without AUTOINCREMENT), so the id of a deleted row comes back.
Insert_reusing_ids(conn, d, t, values, clock) ==
    LET stored == Ids(d[t]) \cup {0}
        id == 1 + CHOOSE k \in stored : \A j \in stored : j <= k
        row == [c \in (DOMAIN values) \cup {"id", "created_at"} |->
                   IF c = "id" THEN id
                   ELSE IF c = "created_at" THEN clock
                   ELSE values[c]]
        dangling == /\ t # "projects"
                    /\ conn.foreign_keys
                    /\ values["project_id"] \notin Ids(d.projects)
    IN  IF ~ (DOMAIN values \subseteq Columns(d, t)) \/ dangling
        THEN Raised(d)
        ELSE Done([d EXCEPT ![t] = @ \cup {row}, !.seq[t] = @ + 1])

\* Mutant of Insert: project_id is not checked against the projects.
Insert_unchecked(conn, d, t, values, clock) ==
    LET id == d.seq[t] + 1
        row == [c \in (DOMAIN values) \cup {"id", "created_at"} |->
                   IF c = "id" THEN id
                   ELSE IF c = "created_at" THEN clock
                   ELSE values[c]]
    IN  IF ~ (DOMAIN values \subseteq Columns(d, t))
        THEN Raised(d)
        ELSE Done([d EXCEPT ![t] = @ \cup {row}, !.seq[t] = id])

\* INSERT INTO t (columns of values) VALUES (...), then commit.  The id is
\* the next AUTOINCREMENT value and created_at defaults to CURRENT_TIMESTAMP.
\* With foreign_keys ON a project_id that names no project is refused.
Insert(conn, d, t, values, clock) ==
    LET id == d.seq[t] + 1
        row == [c \in (DOMAIN values) \cup {"id", "created_at"} |->
                   IF c = "id" THEN id
                   ELSE IF c = "created_at" THEN clock
                   ELSE values[c]]
        dangling == /\ t # "projects"
                    /\ conn.foreign_keys
                    /\ values["project_id"] \notin Ids(d.projects)
    IN  IF ~ (DOMAIN values \subseteq Columns(d, t)) \/ dangling
        THEN Raised(d)
        ELSE Done([d EXCEPT ![t] = @ \cup {row}, !.seq[t] = id])

\* Mutant of UpdateProject: the UPDATE has no WHERE clause.
UpdateProject_every_row(conn, d, project_id, column, value) ==
    LET set(r) == [c \in (DOMAIN r) \cup {column} |->
                      IF c = column THEN value ELSE r[c]]
    IN  Done([d EXCEPT !.projects = {set(r) : r \in @}])

\* UPDATE projects SET column = value WHERE id = project_id, then commit.
UpdateProject(conn, d, project_id, column, value) ==
    LET set(r) == [c \in (DOMAIN r) \cup {column} |->
                      IF c = column THEN value ELSE r[c]]
    IN  Done([d EXCEPT !.projects =
                 {IF r["id"] = project_id THEN set(r) ELSE r : r \in @}])

\* DELETE FROM projects WHERE id = project_id, then commit.  With
\* foreign_keys ON the statement also deletes the milestones and resources
\* that reference the project (ON DELETE CASCADE).
DeleteProjectRow(conn, d, project_id) ==
    LET hit == project_id \in Ids(d.projects)
        kept(rows) ==
            IF conn.foreign_keys /\ hit
            THEN {r \in rows : r["project_id"] # project_id}
            ELSE rows
    IN  Done([d EXCEPT !.projects = {r \in @ : r["id"] # project_id},
                       !.milestones = kept(@),
                       !.resources = kept(@)])

\* DELETE FROM t WHERE id = id, then commit (t is milestones or resources).
DeleteRow(conn, d, t, id) ==
    Done([d EXCEPT ![t] = {r \in @ : r["id"] # id}])

\* Mutant of Leaked: the connection is closed in a finally clause.
Leaked_never(r) == 0

\* Every function that writes ends with conn.commit() and conn.close(), in
\* no try/finally: when execute raises, neither is reached and the function
\* leaves with its connection open.
Leaked(r) == IF r.ok THEN 0 ELSE 1

\* How a call of a repository function ended, as its caller sees it: the
\* functions return None, or let the exception of sqlite3 through.
Ended(call, r) == [call |-> call, raised |-> ~ r.ok]

NoCall == [call |-> "none", raised |-> FALSE]

----------------------------------------------------------------------------
(* The repository functions that write.                                    *)

add_project(d, clock, name, product, business_owner, scrum_master, platforms, planned_go_live, status, delivery_month, notes) ==
    Insert(get_db_connection, d, "projects",
           [name |-> name, product |-> product,
            business_owner |-> business_owner, scrum_master |-> scrum_master,
            platforms |-> platforms, planned_go_live |-> planned_go_live,
            status |-> status, delivery_month |-> delivery_month,
            notes |-> notes],
           clock)

update_project_status(d, project_id, new_status) ==
    UpdateProject(get_db_connection, d, project_id, "status", new_status)

update_project_notes(d, project_id, notes) ==
    UpdateProject(get_db_connection, d, project_id, "notes", notes)

delete_project(d, project_id) ==
    DeleteProjectRow(get_db_connection, d, project_id)

\* revised_date and delay_reason may be None, stored as NULL.
add_milestone(d, clock, project_id, milestone_type, planned_date, revised_date, delay_reason) ==
    Insert(get_db_connection, d, "milestones",
           Row([project_id |-> project_id, milestone_type |-> milestone_type,
                planned_date |-> planned_date, revised_date |-> revised_date,
                delay_reason |-> delay_reason],
               (IF revised_date = NoDate THEN {"revised_date"} ELSE {})
                   \cup (IF delay_reason = None THEN {"delay_reason"} ELSE {})),
           clock)

delete_milestone(d, milestone_id) ==
    DeleteRow(get_db_connection, d, "milestones", milestone_id)

\* end_rule is not in the INSERT: the column takes its DEFAULT.
add_resource(d, clock, employee_name, role, project_id, phase, allocation_pct) ==
    Insert(get_db_connection, d, "resources",
           [employee_name |-> employee_name, role |-> role,
            project_id |-> project_id, phase |-> phase,
            allocation_pct |-> allocation_pct, end_rule |-> "Till Go-Live"],
           clock)

delete_resource(d, resource_id) ==
    DeleteRow(get_db_connection, d, "resources", resource_id)

----------------------------------------------------------------------------
(* The repository functions that read.  SQL leaves the order of rows that  *)
(* compare equal under ORDER BY unspecified, so a query yields the set of  *)
(* row sequences the engine may return.                                    *)

Perms(S) ==
    {f \in [1..Cardinality(S) -> S] :
        \A i, j \in 1..Cardinality(S) : i # j => f[i] # f[j]}

\* The sequences of the rows of S that respect the sort key: `before` holds
\* the pairs <<a, b>> of rows of which a must come first.
OrderBy(S, before) ==
    {f \in Perms(S) :
        \A i, j \in 1..Cardinality(S) : i < j => <<f[j], f[i]>> \notin before}

\* Python truth value of an optional string: None and "" are false.
Truthy(x) == x # None /\ x # ""

\* Mutant of ProjectSelected: the filters are joined with OR.
ProjectSelected_any(r, month_filter, product_filter, status_filter) ==
    \/ ~ Truthy(month_filter) /\ ~ Truthy(product_filter) /\ status_filter = {}
    \/ /\ Truthy(month_filter)
       /\ ~ IsNull(r, "delivery_month") /\ r["delivery_month"] = month_filter
    \/ /\ Truthy(product_filter)
       /\ ~ IsNull(r, "product")
       /\ Like(Chars[r["product"]],
               <<"%">> \o Chars[product_filter] \o <<"%">>)
    \/ /\ status_filter # {}
       /\ ~ IsNull(r, "status") /\ r["status"] \in status_filter

\* The WHERE clause get_all_projects builds; a comparison with NULL is not
\* true.  status_filter is the set of the chosen statuses.
ProjectSelected(r, month_filter, product_filter, status_filter) ==
    /\ Truthy(month_filter) =>
          ~ IsNull(r, "delivery_month") /\ r["delivery_month"] = month_filter
    /\ Truthy(product_filter) =>
          /\ ~ IsNull(r, "product")
          /\ Like(Chars[r["product"]],
                  <<"%">> \o Chars[product_filter] \o <<"%">>)
    /\ status_filter # {} =>
          ~ IsNull(r, "status") /\ r["status"] \in status_filter

\* ORDER BY created_at DESC
CreatedAfter(S) == {ab \in S \X S : ab[1]["created_at"] > ab[2]["created_at"]}

get_all_projects(d, month_filter, product_filter, status_filter) ==
    LET selected ==
            {r \in d.projects :
                ProjectSelected(r, month_filter, product_filter, status_filter)}
    IN  OrderBy(selected, CreatedAfter(selected))

\* SELECT id, name FROM projects ORDER BY name, folded into a dict by name:
\* of the projects that share a name the dict keeps the one fetched last,
\* and rows of equal name come in either order.
get_project_names(d) ==
    LET names == {r["name"] : r \in d.projects}
    IN  {f \in [names -> Ids(d.projects)] :
            \A n \in names :
                \E r \in d.projects : r["name"] = n /\ r["id"] = f[n]}

\* fetchone(): the set holding the row, empty for Python's None.
get_project_by_id(d, project_id) ==
    {r \in d.projects : r["id"] = project_id}

\* ORDER BY planned_date (ascending, BINARY collation of the ISO text)
PlannedBefore(S) ==
    {ab \in S \X S : TextLess(ab[1]["planned_date"], ab[2]["planned_date"])}

get_milestones_for_project(d, project_id) ==
    LET selected == {m \in d.milestones : m["project_id"] = project_id}
    IN  OrderBy(selected, PlannedBefore(selected))

\* Mutant of get_all_resources: the join is ON r.id = p.id.
get_all_resources_joined_on_id(d) ==
    LET joined ==
            {[c \in (DOMAIN r) \cup {"project_name"} |->
                 IF c = "project_name" THEN p["name"] ELSE r[c]] :
             <<r, p>> \in {rp \in d.resources \X d.projects :
                              rp[1]["id"] = rp[2]["id"]}}
    IN  OrderBy(joined, CreatedAfter(joined))

\* SELECT r.*, p.name AS project_name FROM resources r JOIN projects p
\* ON r.project_id = p.id ORDER BY r.created_at DESC
get_all_resources(d) ==
    LET joined ==
            {[c \in (DOMAIN r) \cup {"project_name"} |->
                 IF c = "project_name" THEN p["name"] ELSE r[c]] :
             <<r, p>> \in {rp \in d.resources \X d.projects :
                              rp[1]["project_id"] = rp[2]["id"]}}
    IN  OrderBy(joined, CreatedAfter(joined))

----------------------------------------------------------------------------
(* The inputs of the exploration.                                          *)

\* date.today()
Today == <<2026, 3, 5>>

\* generate_month_options(): the first two of the thirteen month labels.
generate_month_options == <<"Mar 2026", "Apr 2026">>

\* What the user enters in the project form; the other fields are left as
\* the form shows them (no owner, no scrum master, no platform, today).
ProjectForms ==
    {[project_name |-> "", product |-> "Imran Siddiqui",
      status |-> "New Request", delivery_month |-> "Mar 2026"],
     [project_name |-> "Alpha", product |-> "Select Product",
      status |-> "New Request", delivery_month |-> "Mar 2026"],
     [project_name |-> "Alpha", product |-> "Imran Siddiqui",
      status |-> "New Request", delivery_month |-> "Mar 2026"],
     [project_name |-> "Beta", product |-> "Heba Hosny",
      status |-> "Delayed", delivery_month |-> "Apr 2026"]}

\* The planned and the revised date picked in the milestone form: revised
\* later than planned, equal to it, earlier, and left empty.  The dates
\* differ in the number of digits of the month and of the day.
MilestoneForms ==
    {[planned_date |-> <<2026, 9, 20>>, revised_date |-> <<2026, 10, 1>>],
     [planned_date |-> <<2026, 10, 1>>, revised_date |-> <<2026, 10, 1>>],
     [planned_date |-> <<2026, 10, 1>>, revised_date |-> <<2026, 9, 20>>],
     [planned_date |-> <<2026, 9, 20>>, revised_date |-> NoDate]}

\* The statuses picked in "Change Status" and the notes typed in the
\* release view.
StatusChoices == {"New Request", "Delayed"}

NotesChoices == {"blocked"}

EmployeeNames == {"", "Jane"}

\* A projects table left by an earlier version of the script: columns
\* `present` of the migrated ones, and n rows of ids 1..n, the first one
\* Delayed.
LegacyProject(present, id) ==
    LET all == [id |-> id, name |-> "Legacy",
                product_squad |-> "Heba Hosny", product |-> "Imran Siddiqui",
                business_owner |-> "", scrum_master |-> "Sam",
                platforms |-> "Web", planned_go_live |-> isoformat(Today),
                status |-> IF id = 1 THEN "Delayed" ELSE "New Request",
                delivery_month |-> "Mar 2026", notes |-> "kept",
                created_at |-> 0]
    IN  [c \in Range(LegacyColumns(present)) |-> all[c]]

LegacyStore(present, n) ==
    [schema |-> [t \in {"projects"} |-> LegacyColumns(present)],
     projects |-> {LegacyProject(present, id) : id \in 1..n},
     milestones |-> {},
     resources |-> {},
     seq |-> [t \in Tables |-> IF t = "projects" THEN n ELSE 0]]

\* The schema before product_squad was renamed and the four columns added.
OldSchema == {"product_squad"}

----------------------------------------------------------------------------
(* The script.  Every run starts with init_db() and then handles the one   *)
(* widget event that caused it.  ui is what the run called and wrote on    *)
(* the page before it ended or reran.                                      *)

\* call: the repository function that wrote; msgs: the messages written;
\* buttons: the buttons the handler added to the page for the next click.
Shown(call, msgs) == [call |-> call, msgs |-> msgs, buttons |-> {}]

Idle == Shown("none", {})

\* The exploration stops inserting into table t at max rows, and at `rows`
\* rows in the three tables together.
Room(t, max, rows) ==
    /\ db.seq[t] < max
    /\ db.seq["projects"] + db.seq["milestones"] + db.seq["resources"] < rows

Key(kind, id) == <<kind, id>>

\* session_state.delete_confirm.get(key, False)
Pending(kind, id) == Key(kind, id) \in delete_confirm

\* The exploration stops setting flags at max flags set.
Flags(kind, id, max) == Pending(kind, id) \/ Cardinality(delete_confirm) < max

\* project[7] != "Delayed", project being a row of SELECT * FROM projects:
\* the value of the eighth column of the table, whichever that is.
IndexSevenNotDelayed(d, project) ==
    LET c == d.schema["projects"][8]
    IN  \/ IsNull(project, c)
        \/ c \in {"id", "created_at", "planned_go_live"}
        \/ project[c] # "Delayed"

\* The run has called the repository function `call`, with result r.
Called(call, r) ==
    /\ connections' = connections + Leaked(r)
    /\ outcome' = Ended(call, r)

\* The run has called no repository function that writes.
NothingCalled ==
    /\ connections' = connections
    /\ outcome' = NoCall

\* A run with no event to handle: the page is opened or redrawn.
Rerun ==
    /\ db' = init_db(db)
    /\ ui' = Idle
    /\ NothingCalled
    /\ UNCHANGED <<now, delete_confirm>>

\* CURRENT_TIMESTAMP moves on by a second.
Tick ==
    /\ now < MaxClock
    /\ now' = now + 1
    /\ UNCHANGED <<db, delete_confirm, ui, connections, outcome>>


(* Page 1: project intake.                                                 *)

\* Mutant of SubmitProject: the required fields are not checked.
SubmitProject_unchecked(f) ==
    LET d == init_db(db)
        r == add_project(d, now, f.project_name, f.product, "", "", "",
                         isoformat(Today), f.status, f.delivery_month, "")
    IN  /\ UNCHANGED <<now, delete_confirm>>
        /\ db' = r.db
        /\ Called("add_project", r)
        /\ ui' = Shown("add_project",
                       IF r.ok THEN {"success: project saved"}
                       ELSE {"error: saving project"})

\* "Save Project" with the form filled as f.
SubmitProject(f) ==
    LET d == init_db(db)
        r == add_project(d, now, f.project_name, f.product, "", "", "",
                         isoformat(Today), f.status, f.delivery_month, "")
    IN  /\ UNCHANGED <<now, delete_confirm>>
        /\ IF f.project_name = "" \/ f.product = "Select Product"
           THEN /\ db' = d
                /\ NothingCalled
                /\ ui' = Shown("none", {"error: required"})
           ELSE /\ db' = r.db
                /\ Called("add_project", r)
                /\ ui' = Shown("add_project",
                               IF r.ok THEN {"success: project saved"}
                               ELSE {"error: saving project"})

\* The bin button of a row of the project table.
ClickDeleteProject(id) ==
    LET d == init_db(db)
    IN  /\ id \in Ids(d.projects)
        /\ delete_confirm' = delete_confirm \cup {Key("project", id)}
        /\ db' = d
        /\ ui' = Idle
        /\ NothingCalled
        /\ UNCHANGED now

\* "Confirm", drawn under a row whose flag is set.
ConfirmDeleteProject(id) ==
    LET d == init_db(db)
    IN  /\ id \in Ids(d.projects)
        /\ Pending("project", id)
        /\ db' = delete_project(d, id).db
        /\ Called("delete_project", delete_project(d, id))
        /\ delete_confirm' = delete_confirm \ {Key("project", id)}
        /\ ui' = Shown("delete_project", {"success: project deleted"})
        /\ UNCHANGED now

\* "Cancel", drawn beside "Confirm".
CancelDeleteProject(id) ==
    LET d == init_db(db)
    IN  /\ id \in Ids(d.projects)
        /\ Pending("project", id)
        /\ db' = d
        /\ delete_confirm' = delete_confirm \ {Key("project", id)}
        /\ ui' = Idle
        /\ NothingCalled
        /\ UNCHANGED now

(* Page 2: milestones of the project selected by name.                     *)

\* The ids the "Select Project" box can select.
Selectable(d) ==
    UNION {{projects[n] : n \in DOMAIN projects} :
              projects \in get_project_names(d)}

\* st.button("Mark as Delayed") as the milestone handler reaches it.  The
\* call stands inside `with st.form`, where Streamlit raises
\* StreamlitAPIException for any button but the form's submit button, so no
\* button is created; and the run was caused by the submit button, so no
\* other button is pressed in it.
MarkAsDelayedButton == [created |-> FALSE, pressed |-> FALSE]

\* "Add Milestone" for the selected project, with the dates picked.  The
\* exception of the button is caught by the handler's except clause, which
\* reports it as an error of adding the milestone; the run then ends
\* without st.rerun().
SubmitMilestone(project_id, planned_date, revised_date) ==
    LET d == init_db(db)
        r == add_milestone(d, now, project_id, "DEV_START",
                           isoformat(planned_date),
                           IF revised_date # NoDate
                           THEN isoformat(revised_date) ELSE NoDate,
                           None)
        project == get_project_by_id(r.db, project_id)
        suggest ==
            /\ r.ok
            /\ revised_date # NoDate
            /\ DateGt(revised_date, planned_date)
            /\ \E row \in project : IndexSevenNotDelayed(r.db, row)
        accepted == suggest /\ MarkAsDelayedButton.pressed
    IN  /\ project_id \in Selectable(d)
        /\ db' = IF accepted
                 THEN update_project_status(r.db, project_id, "Delayed").db
                 ELSE r.db
        /\ Called("add_milestone", r)
        /\ ui' = [call |-> "add_milestone",
                  msgs |->
                      IF ~ r.ok THEN {"error: adding milestone"}
                      ELSE IF ~ suggest THEN {"success: milestone added"}
                      ELSE {"success: milestone added",
                            "warning: mark the project as Delayed?"}
                           \cup (IF MarkAsDelayedButton.created
                                 THEN {} ELSE {"error: adding milestone"}),
                  buttons |->
                      IF suggest /\ MarkAsDelayedButton.created
                      THEN {"Mark as Delayed"} ELSE {}]
        /\ UNCHANGED <<now, delete_confirm>>

\* The milestone table shows the milestones of the selected project.
MilestoneShown(d, id) ==
    \E m \in d.milestones : m["id"] = id /\ m["project_id"] \in Selectable(d)

ClickDeleteMilestone(id) ==
    LET d == init_db(db)
    IN  /\ MilestoneShown(d, id)
        /\ delete_confirm' = delete_confirm \cup {Key("milestone", id)}
        /\ db' = d
        /\ ui' = Idle
        /\ NothingCalled
        /\ UNCHANGED now

ConfirmDeleteMilestone(id) ==
    LET d == init_db(db)
    IN  /\ MilestoneShown(d, id)
        /\ Pending("milestone", id)
        /\ db' = delete_milestone(d, id).db
        /\ Called("delete_milestone", delete_milestone(d, id))
        /\ delete_confirm' = delete_confirm \ {Key("milestone", id)}
        /\ ui' = Shown("delete_milestone", {"success: deleted"})
        /\ UNCHANGED now

CancelDeleteMilestone(id) ==
    LET d == init_db(db)
    IN  /\ MilestoneShown(d, id)
        /\ Pending("milestone", id)
        /\ db' = d
        /\ delete_confirm' = delete_confirm \ {Key("milestone", id)}
        /\ ui' = Idle
        /\ NothingCalled
        /\ UNCHANGED now


(* Page 3: resources.  The page draws nothing when there is no project.    *)

\* "Add Resource" for the project selected by name.
SubmitResource(employee_name, project_id) ==
    LET d == init_db(db)
        r == add_resource(d, now, employee_name, "FE", project_id, "DEV", 80)
    IN  /\ project_id \in Selectable(d)
        /\ UNCHANGED <<now, delete_confirm>>
        /\ IF employee_name = ""
           THEN /\ db' = d
                /\ NothingCalled
                /\ ui' = Shown("none", {"error: employee name required"})
           ELSE /\ db' = r.db
                /\ Called("add_resource", r)
                /\ ui' = Shown("add_resource",
                               IF r.ok THEN {"success: resource assigned"}
                               ELSE {"error: adding resource"})

\* The resource table shows the rows of get_all_resources.
ResourceShown(d, id) ==
    /\ d.projects # {}
    /\ \E rows \in get_all_resources(d) :
          \E i \in DOMAIN rows : rows[i]["id"] = id

ClickDeleteResource(id) ==
    LET d == init_db(db)
    IN  /\ ResourceShown(d, id)
        /\ delete_confirm' = delete_confirm \cup {Key("resource", id)}
        /\ db' = d
        /\ ui' = Idle
        /\ NothingCalled
        /\ UNCHANGED now

ConfirmDeleteResource(id) ==
    LET d == init_db(db)
    IN  /\ ResourceShown(d, id)
        /\ Pending("resource", id)
        /\ db' = delete_resource(d, id).db
        /\ Called("delete_resource", delete_resource(d, id))
        /\ delete_confirm' = delete_confirm \ {Key("resource", id)}
        /\ ui' = Shown("delete_resource", {"success: deleted"})
        /\ UNCHANGED now

CancelDeleteResource(id) ==
    LET d == init_db(db)
    IN  /\ ResourceShown(d, id)
        /\ Pending("resource", id)
        /\ db' = d
        /\ delete_confirm' = delete_confirm \ {Key("resource", id)}
        /\ ui' = Idle
        /\ NothingCalled
        /\ UNCHANGED now

(* Page 4: release view of the projects of one delivery month.             *)

\* The projects the release view lists under some month of the selector.
Released(d) ==
    UNION {Range(rows) :
             rows \in UNION {get_all_projects(d, generate_month_options[i],
                                              None, {}) :
                                i \in DOMAIN generate_month_options}}

\* "Save Notes" of a listed project.
SaveNotes(id, new_notes) ==
    LET d == init_db(db)
    IN  /\ id \in Ids(Released(d))
        /\ db' = update_project_notes(d, id, new_notes).db
        /\ Called("update_project_notes", update_project_notes(d, id, new_notes))
        /\ ui' = Shown("update_project_notes", {"success: notes updated"})
        /\ UNCHANGED <<now, delete_confirm>>

\* "Update Status", drawn when the status selected differs from the row's.
UpdateStatus(id, new_status) ==
    LET d == init_db(db)
    IN  /\ \E row \in Released(d) :
              /\ row["id"] = id
              /\ IsNull(row, "status") \/ new_status # row["status"]
        /\ db' = update_project_status(d, id, new_status).db
        /\ Called("update_project_status",
                  update_project_status(d, id, new_status))
        /\ ui' = Shown("update_project_status", {"success: status updated"})
        /\ UNCHANGED <<now, delete_confirm>>

----------------------------------------------------------------------------
(* Specifications.                                                         *)

\* No store yet, or the store of the earlier schema with one project,
\* created before the clock of the exploration starts.
Init ==
    /\ db \in {EmptyStore, LegacyStore(OldSchema, 1)}
    /\ now = 1
    /\ delete_confirm = {}
    /\ ui = Idle
    /\ connections = 0
    /\ outcome = NoCall

ProjectIds == 1..MaxProjects

MilestoneIds == 1..MaxMilestones

ResourceIds == 1..MaxResources

Next ==
    \/ Rerun
    \/ Tick
    \/ \E f \in ProjectForms :
          Room("projects", MaxProjects, MaxRows) /\ SubmitProject(f)
    \/ \E id \in ProjectIds :
          Flags("project", id, MaxPending) /\ ClickDeleteProject(id)
    \/ \E id \in ProjectIds : ConfirmDeleteProject(id)
    \/ \E id \in ProjectIds : CancelDeleteProject(id)
    \/ \E id \in ProjectIds, f \in MilestoneForms :
          /\ Room("milestones", MaxMilestones, MaxRows)
          /\ SubmitMilestone(id, f.planned_date, f.revised_date)
    \/ \E id \in MilestoneIds :
          Flags("milestone", id, MaxPending) /\ ClickDeleteMilestone(id)
    \/ \E id \in MilestoneIds : ConfirmDeleteMilestone(id)
    \/ \E id \in MilestoneIds : CancelDeleteMilestone(id)
    \/ \E name \in EmployeeNames, id \in ProjectIds :
          Room("resources", MaxResources, MaxRows) /\ SubmitResource(name, id)
    \/ \E id \in ResourceIds :
          Flags("resource", id, MaxPending) /\ ClickDeleteResource(id)
    \/ \E id \in ResourceIds : ConfirmDeleteResource(id)
    \/ \E id \in ResourceIds : CancelDeleteResource(id)
    \/ \E id \in ProjectIds, notes \in NotesChoices : SaveNotes(id, notes)
    \/ \E id \in ProjectIds, status \in StatusChoices : UpdateStatus(id, status)

Spec == Init /\ [][Next]_vars

\* The user stays on the intake page and on the release view.
NextProjects ==
    \/ Rerun
    \/ Tick
    \/ \E f \in ProjectForms :
          Room("projects", MaxProjects, MaxRows) /\ SubmitProject(f)
    \/ \E id \in ProjectIds :
          Flags("project", id, MaxPending) /\ ClickDeleteProject(id)
    \/ \E id \in ProjectIds : ConfirmDeleteProject(id)
    \/ \E id \in ProjectIds : CancelDeleteProject(id)
    \/ \E id \in ProjectIds, notes \in NotesChoices : SaveNotes(id, notes)
    \/ \E id \in ProjectIds, status \in StatusChoices : UpdateStatus(id, status)

\* The user adds projects, milestones and resources and works the delete
\* buttons of the three pages; the clock stands still.
NextDeletes ==
    \/ Rerun
    \/ \E f \in {g \in ProjectForms : g.product # "Select Product"} :
          Room("projects", MaxProjects, MaxDeleteRows) /\ SubmitProject(f)
    \/ \E id \in ProjectIds :
          Flags("project", id, MaxDeletePending) /\ ClickDeleteProject(id)
    \/ \E id \in ProjectIds : ConfirmDeleteProject(id)
    \/ \E id \in ProjectIds : CancelDeleteProject(id)
    \/ \E id \in ProjectIds :
          /\ Room("milestones", MaxMilestones, MaxDeleteRows)
          /\ SubmitMilestone(id, Today, NoDate)
    \/ \E id \in MilestoneIds :
          Flags("milestone", id, MaxDeletePending) /\ ClickDeleteMilestone(id)
    \/ \E id \in MilestoneIds : ConfirmDeleteMilestone(id)
    \/ \E id \in MilestoneIds : CancelDeleteMilestone(id)
    \/ \E id \in ProjectIds :
          Room("resources", MaxResources, MaxDeleteRows) /\ SubmitResource("Jane", id)
    \/ \E id \in ResourceIds :
          Flags("resource", id, MaxDeletePending) /\ ClickDeleteResource(id)
    \/ \E id \in ResourceIds : ConfirmDeleteResource(id)
    \/ \E id \in ResourceIds : CancelDeleteResource(id)

SpecProjects == Init /\ [][NextProjects]_vars

SpecDeletes == Init /\ [][NextDeletes]_vars

\* The first runs of the script over a store of any earlier schema, with up
\* to two projects in it.
InitMigrate ==
    /\ db \in {EmptyStore}
              \cup {LegacyStore(present, n) :
                       present \in SUBSET MigratedColumns, n \in 0..MaxProjects}
    /\ now = 1
    /\ delete_confirm = {}
    /\ ui = Idle
    /\ connections = 0
    /\ outcome = NoCall

NextMigrate == Rerun \/ Tick

SpecMigrate == InitMigrate /\ [][NextMigrate]_vars

\* The repository functions called one after the other, with any
\* arguments, on the store init_db() has prepared (line 269): the data
\* access layer as its callers may use it.  No page is drawn.
InitRepository ==
    /\ db \in {init_db(EmptyStore), init_db(LegacyStore(OldSchema, 1))}
    /\ now = 1
    /\ delete_confirm = {}
    /\ ui = Idle
    /\ connections = 0
    /\ outcome = NoCall

\* A connection left open by a statement that raised still holds the write
\* transaction the statement began: until it is closed, the statements of
\* the other connections that write raise "database is locked".
Locked == connections > 0

\* The call `call` has ended; r is its result on a store that is not locked.
Returns(call, r) ==
    LET res == IF Locked THEN Raised(db) ELSE r
    IN  /\ connections + Leaked(res) <= MaxOpen
        /\ db' = res.db
        /\ connections' = connections + Leaked(res)
        /\ outcome' = Ended(call, res)
        /\ UNCHANGED <<now, delete_confirm, ui>>

CallAddProject(name) ==
    /\ Room("projects", MaxProjects, MaxRows)
    /\ Returns("add_project",
               add_project(db, now, name, "Imran Siddiqui", "", "", "",
                           isoformat(Today), "New Request", "Mar 2026", ""))

CallUpdateProjectStatus(project_id, new_status) ==
    Returns("update_project_status",
            update_project_status(db, project_id, new_status))

CallUpdateProjectNotes(project_id, notes) ==
    Returns("update_project_notes", update_project_notes(db, project_id, notes))

CallDeleteProject(project_id) ==
    Returns("delete_project", delete_project(db, project_id))

CallAddMilestone(project_id) ==
    /\ Room("milestones", MaxMilestones, MaxRows)
    /\ Returns("add_milestone",
               add_milestone(db, now, project_id, "GO_LIVE",
                             isoformat(Today), NoDate, None))

CallDeleteMilestone(milestone_id) ==
    Returns("delete_milestone", delete_milestone(db, milestone_id))

CallAddResource(project_id) ==
    /\ Room("resources", MaxResources, MaxRows)
    /\ Returns("add_resource",
               add_resource(db, now, "Jane", "QA", project_id, "QA", 50))

CallDeleteResource(resource_id) ==
    Returns("delete_resource", delete_resource(db, resource_id))

\* The interpreter finalizes the connection objects no frame or traceback
\* refers to any more, which closes them; when it does so is up to it.
CollectGarbage ==
    /\ connections > 0
    /\ connections' = 0
    /\ UNCHANGED <<db, now, delete_confirm, ui, outcome>>

NextRepository ==
    \/ Tick
    \/ CollectGarbage
    \/ \E name \in {"Alpha", "Beta"} : CallAddProject(name)
    \/ \E id \in ProjectIds, status \in StatusChoices :
          CallUpdateProjectStatus(id, status)
    \/ \E id \in ProjectIds, notes \in NotesChoices :
          CallUpdateProjectNotes(id, notes)
    \/ \E id \in ProjectIds : CallDeleteProject(id)
    \/ \E id \in ProjectIds : CallAddMilestone(id)
    \/ \E id \in MilestoneIds : CallDeleteMilestone(id)
    \/ \E id \in ProjectIds : CallAddResource(id)
    \/ \E id \in ResourceIds : CallDeleteResource(id)

SpecRepository == InitRepository /\ [][NextRepository]_vars

----------------------------------------------------------------------------
(* Properties.                                                             *)

\* The store as the repository functions of a run find it: the script has
\* called init_db() before it calls any of them.
Store == init_db(db)

\* C1: whenever a step removes a project P (delete_project(P) has
\* committed), the state it leaves has no milestone and no resource whose
\* project_id is P: the project and its dependents go in the same step.
C1_DeleteProjectCascades ==
    [][\A P \in ProjectIds :
          P \in Ids(db.projects) /\ P \notin Ids(db'.projects)
          => \A r \in db'.milestones \cup db'.resources : r["project_id"] # P]_vars

\* A project was deleted by the last run after a milestone and a resource
\* had been inserted, and both tables are empty.
C1_Witness ==
    /\ ui.call = "delete_project"
    /\ db.seq["milestones"] > 0
    /\ db.seq["resources"] > 0
    /\ db.milestones = {}
    /\ db.resources = {}

\* C2: a submission of the project form with an empty name or with no
\* product chosen calls no repository function that writes and leaves the
\* number of project rows (and the id counter) as it was.
C2_RequiredFieldsRejected ==
    [][\A f \in ProjectForms :
          (f.project_name = "" \/ f.product = "Select Product")
              /\ SubmitProject(f)
          => /\ ui'.call = "none"
             /\ "error: required" \in ui'.msgs
             /\ Cardinality(db'.projects) = Cardinality(db.projects)
             /\ Ids(db'.projects) = Ids(db.projects)
             /\ db'.seq = db.seq]_vars

\* A submission was rejected while the table held a project.
C2_Witness ==
    /\ "error: required" \in ui.msgs
    /\ ui.call = "none"
    /\ db.projects # {}


\* The filters tried on the project list.
MonthFilters == {None, "", "Mar 2026", "Apr 2026"}

ProductFilters == {None, "", "im", "Heba", "_", "a%s", "ny"}

StatusFilters == {{}, {"Delayed"}, {"New Request", "Go-Live"}}

\* text contains part as a run of consecutive, identical characters.
Substring(text, part) ==
    \E i \in 1..(Len(text) + 1) :
        /\ i + Len(part) - 1 <= Len(text)
        /\ \A k \in 1..Len(part) : text[i + k - 1] = part[k]

\* The pieces of a filter between its % characters.
RECURSIVE Pieces(_, _)
Pieces(filter, piece) ==
    IF filter = <<>> THEN <<piece>>
    ELSE IF Head(filter) = "%" THEN <<piece>> \o Pieces(Tail(filter), <<>>)
    ELSE Pieces(Tail(filter), Append(piece, Head(filter)))

\* piece stands in text at position i, letters up to ASCII case and _ for
\* any one character.
PieceAt(piece, text, i) ==
    /\ i + Len(piece) - 1 <= Len(text)
    /\ \A k \in 1..Len(piece) :
          piece[k] = "_" \/ Fold(piece[k]) = Fold(text[i + k - 1])

\* The pieces stand in text one after the other, from position i on.
RECURSIVE InOrder(_, _, _)
InOrder(pieces, text, i) ==
    \/ pieces = <<>>
    \/ \E j \in i..(Len(text) + 1) :
          /\ PieceAt(Head(pieces), text, j)
          /\ InOrder(Tail(pieces), text, j + Len(Head(pieces)))

ContainsPattern(text, filter) == InOrder(Pieces(filter, <<>>), text, 1)

\* The projects a listing is to return; the product filter is matched as a
\* plain substring when `plain`, and as a pattern otherwise.
Expected(d, m, p, st, plain) ==
    {r \in d.projects :
        /\ m \notin {None, ""} =>
              ~ IsNull(r, "delivery_month") /\ r["delivery_month"] = m
        /\ p \notin {None, ""} =>
              /\ ~ IsNull(r, "product")
              /\ IF plain THEN Substring(Chars[r["product"]], Chars[p])
                 ELSE ContainsPattern(Chars[r["product"]], Chars[p])
        /\ st # {} => ~ IsNull(r, "status") /\ r["status"] \in st}

\* Every listing get_all_projects may return holds exactly the rows of
\* Expected, each once.
ListsExactly(plain) ==
    LET d == Store
    IN  \A m \in MonthFilters, p \in ProductFilters, st \in StatusFilters :
            LET lists == get_all_projects(d, m, p, st)
                expected == Expected(d, m, p, st, plain)
            IN  /\ lists # {}
                /\ \A rows \in lists :
                      /\ Range(rows) = expected
                      /\ Len(rows) = Cardinality(expected)

\* C3 as stated: get_all_projects returns exactly the projects whose
\* delivery_month equals the month filter, whose product contains the
\* product filter as a substring and whose status is in the status filter,
\* a filter that is absent or empty placing no constraint.
C3_AsStated == ListsExactly(TRUE)

\* C3 as amended: the same, the product filter being matched as a substring
\* up to the case of ASCII letters, with _ in the filter standing for any
\* one character and % for any run of characters.
C3_FiltersCompose == ListsExactly(FALSE)

\* Two projects are stored, the filter "im" selects one of them by its
\* product "Imran Siddiqui", and month and status filters together select
\* one of them too.
C3_Witness ==
    /\ Cardinality(db.projects) = 2
    /\ \E rows \in get_all_projects(db, None, "im", {}) : Len(rows) = 1
    /\ \E rows \in get_all_projects(db, "Apr 2026", None, {"Delayed"}) :
          Len(rows) = 1


\* C4: a run of init_db on the store a run of init_db has left changes
\* nothing: not the tables, not the columns of any table, not a row.
C4_InitDbIdempotent ==
    LET once == init_db(db)
    IN  init_db(once) = once

\* A store of an earlier schema, with rows, has been migrated: its columns
\* are not in the order of a new store.
C4_Witness ==
    /\ DOMAIN db.schema = Tables
    /\ db.schema["projects"] # ProjectColumns
    /\ "notes" \in Columns(db, "projects")
    /\ db.projects # {}

\* C5: on a store with a projects table, a run of init_db renames
\* product_squad to product when product_squad was there and product was
\* not, leaves scrum_master, platforms, delivery_month and notes present
\* (NULL in every row where the column was missing), drops no column and
\* keeps every row with every value it had.
C5_MigrationKeepsData ==
    HasTable(db, "projects") =>
        LET d == init_db(db)
            old == Columns(db, "projects")
            new == Columns(d, "projects")
            renamed == "product_squad" \in old /\ "product" \notin old
            ren(c) == IF renamed /\ c = "product_squad" THEN "product" ELSE c
            added == {"scrum_master", "platforms", "delivery_month", "notes"}
        IN  /\ renamed => "product" \in new /\ "product_squad" \notin new
            /\ added \subseteq new
            /\ \A c \in added \ old : \A r \in d.projects : IsNull(r, c)
            /\ \A c \in old : ren(c) \in new
            /\ Len(d.schema["projects"]) = Cardinality(new)
            /\ Cardinality(d.projects) = Cardinality(db.projects)
            /\ \A r \in db.projects :
                  \E q \in d.projects :
                      \A c \in old :
                          /\ IsNull(q, ren(c)) <=> IsNull(r, c)
                          /\ ~ IsNull(r, c) => q[ren(c)] = r[c]

\* The store of the earlier schema has been migrated: product stands where
\* product_squad stood, with the value of product_squad, the four columns
\* have been appended, and the row has NULL in them.
C5_Witness ==
    /\ HasTable(db, "projects")
    /\ db.schema["projects"] =
          <<"id", "name", "product", "business_owner", "planned_go_live",
            "status", "created_at", "scrum_master", "platforms",
            "delivery_month", "notes">>
    /\ \E r \in db.projects :
          /\ r["product"] = "Heba Hosny"
          /\ r["status"] = "Delayed"
          /\ IsNull(r, "notes")


\* The run has written the suggestion to mark the project as Delayed.
Offered(u) == "warning: mark the project as Delayed?" \in u.msgs

\* C6: adding a milestone offers the suggestion exactly when the revised
\* date is later than the planned date and the status of the project is
\* not "Delayed".
C6_SuggestionIffSlipAndNotDelayed ==
    [][\A id \in ProjectIds, f \in MilestoneForms :
          SubmitMilestone(id, f.planned_date, f.revised_date)
          => (Offered(ui') <=>
                 /\ f.revised_date # NoDate
                 /\ DateGt(f.revised_date, f.planned_date)
                 /\ \E p \in Store.projects :
                       /\ p["id"] = id
                       /\ IsNull(p, "status") \/ p["status"] # "Delayed")]_vars

\* C7: once the suggestion is offered the user can accept it: the page
\* holds the button "Mark as Delayed", whose click sets the status.
C7_SuggestionCanBeAccepted ==
    Offered(ui) => "Mark as Delayed" \in ui.buttons

\* C8: every listing get_all_resources may return holds every stored
\* resource exactly once, with the columns as stored and the name of the
\* project whose id is the resource's project_id.
C8_ResourcesJoined ==
    LET d == Store
    IN  /\ get_all_resources(d) # {}
        /\ \A rows \in get_all_resources(d) :
              /\ Len(rows) = Cardinality(d.resources)
              /\ \A r \in d.resources :
                    \E i \in DOMAIN rows :
                        /\ \A c \in DOMAIN r : rows[i][c] = r[c]
                        /\ \E p \in d.projects :
                              /\ p["id"] = r["project_id"]
                              /\ rows[i]["project_name"] = p["name"]
                        /\ \A j \in DOMAIN rows :
                              rows[j]["id"] = r["id"] => j = i

\* A resource is listed beside a second project of another name.
C8_Witness ==
    /\ db.resources # {}
    /\ Cardinality({p["name"] : p \in db.projects}) = 2
    /\ \E rows \in get_all_resources(db) : Len(rows) = Cardinality(db.resources)

\* The date an ISO text stands for: its numbers between the hyphens.
RECURSIVE IsoFields(_, _, _)
IsoFields(text, fields, n) ==
    IF text = <<>> THEN Append(fields, n)
    ELSE IF Head(text) = "-" THEN IsoFields(Tail(text), Append(fields, n), 0)
    ELSE IsoFields(Tail(text), fields,
                   10 * n + (CHOOSE k \in 0..9 : Digits[k + 1] = Head(text)))

DateOf(text) == IsoFields(text, <<>>, 0)

\* C9: every listing get_milestones_for_project(P) may return holds exactly
\* the milestones of project P, each once, and no milestone in it is
\* planned for an earlier day than the one before it.
C9_MilestonesOfProjectByDate ==
    LET d == Store
    IN  \A P \in ProjectIds :
            /\ get_milestones_for_project(d, P) # {}
            /\ \A rows \in get_milestones_for_project(d, P) :
                  /\ Range(rows) = {m \in d.milestones : m["project_id"] = P}
                  /\ Len(rows) = Cardinality(Range(rows))
                  /\ \A i, j \in DOMAIN rows :
                        i < j => ~ DateGt(DateOf(rows[i]["planned_date"]),
                                          DateOf(rows[j]["planned_date"]))

\* A project has two milestones, the later-planned one inserted first.
C9_Witness ==
    \E a, b \in db.milestones :
        /\ a["project_id"] = b["project_id"]
        /\ a["id"] < b["id"]
        /\ DateGt(DateOf(a["planned_date"]), DateOf(b["planned_date"]))

\* C10: in every listing get_all_projects may return, a project created
\* after another one stands before it, also when both were created within
\* the same second.  (Ids are handed out in the order of creation.)
C10_NewestFirst ==
    \A rows \in get_all_projects(Store, None, None, {}) :
        \A i, j \in DOMAIN rows :
            rows[i]["id"] < rows[j]["id"] => j < i

\* e is the store d but for the column `column` of project P: same tables
\* and columns, same milestones, resources and id counters, the same
\* projects by id, and every other column of every project as it was.
SameButFor(d, e, P, column) ==
    /\ e.schema = d.schema
    /\ e.milestones = d.milestones
    /\ e.resources = d.resources
    /\ e.seq = d.seq
    /\ Cardinality(e.projects) = Cardinality(d.projects)
    /\ \A r \in d.projects :
          \E q \in e.projects :
              /\ q["id"] = r["id"]
              /\ \A c \in Columns(d, "projects") :
                    \/ r["id"] = P /\ c = column
                    \/ /\ IsNull(q, c) <=> IsNull(r, c)
                       /\ ~ IsNull(r, c) => q[c] = r[c]

\* C11: a run that updates the status (the notes) of project P leaves the
\* store as init_db found it but for the status (the notes) of P, which has
\* the new value; and a run that adds or deletes a milestone or a resource,
\* a milestone with a slipped revised date included, changes no project.
C11_OnlyStatusAndNotesChange ==
    [][LET d == Store
       IN  /\ \A P \in ProjectIds, s \in StatusChoices :
                 ui'.call = "update_project_status" /\ UpdateStatus(P, s)
                 => /\ SameButFor(d, db', P, "status")
                    /\ \E q \in db'.projects : q["id"] = P /\ q["status"] = s
           /\ \A P \in ProjectIds, n \in NotesChoices :
                 ui'.call = "update_project_notes" /\ SaveNotes(P, n)
                 => /\ SameButFor(d, db', P, "notes")
                    /\ \E q \in db'.projects : q["id"] = P /\ q["notes"] = n
           /\ ui'.call \in {"add_milestone", "delete_milestone",
                            "add_resource", "delete_resource"}
                 => db'.projects = d.projects]_vars

\* The status of one of two projects of different product has just been
\* updated to a status the other does not have, with a milestone stored.
C11_Witness ==
    /\ ui.call = "update_project_status"
    /\ db.milestones # {}
    /\ \E p, q \in db.projects :
          /\ p["product"] # q["product"]
          /\ p["status"] # q["status"]

\* C12: after any sequence of calls of the repository functions, whether
\* they returned or raised, no connection is open.
C12_NoConnectionLeftOpen == connections = 0

\* C13: a call of update_project_status, update_project_notes,
\* delete_project, delete_milestone or delete_resource with an id that
\* matches no row leaves the three tables as they were and ends by raising
\* (not found); it does not return as a call that succeeded does.
C13_MissingIdSurfaced ==
    [][/\ \A id \in ProjectIds :
             /\ id \notin Ids(db.projects)
             /\ \/ \E s \in StatusChoices : CallUpdateProjectStatus(id, s)
                \/ \E n \in NotesChoices : CallUpdateProjectNotes(id, n)
                \/ CallDeleteProject(id)
             => db' = db /\ outcome'.raised
       /\ \A id \in MilestoneIds :
             id \notin Ids(db.milestones) /\ CallDeleteMilestone(id)
             => db' = db /\ outcome'.raised
       /\ \A id \in ResourceIds :
             id \notin Ids(db.resources) /\ CallDeleteResource(id)
             => db' = db /\ outcome'.raised]_vars

\* The part of C13 the functions keep: such a call changes no table.
C13_MissingIdChangesNothing ==
    [][/\ \A id \in ProjectIds :
             /\ id \notin Ids(db.projects)
             /\ \/ \E s \in StatusChoices : CallUpdateProjectStatus(id, s)
                \/ \E n \in NotesChoices : CallUpdateProjectNotes(id, n)
                \/ CallDeleteProject(id)
             => db' = db
       /\ \A id \in MilestoneIds :
             id \notin Ids(db.milestones) /\ CallDeleteMilestone(id)
             => db' = db
       /\ \A id \in ResourceIds :
             id \notin Ids(db.resources) /\ CallDeleteResource(id)
             => db' = db]_vars

\* Every milestone and every resource belongs to exactly one stored project.
ReferentialIntegrity ==
    \A r \in db.milestones \cup db.resources :
        Cardinality({p \in db.projects : p["id"] = r["project_id"]}) = 1

\* C14: in every state a sequence of repository calls reaches, with any
\* arguments, every milestone and every resource has the project_id of
\* exactly one stored project; and add_milestone or add_resource for a
\* project_id that no project has raises and writes nothing.
C14_ReferentialIntegrity ==
    /\ []ReferentialIntegrity
    /\ [][\A id \in ProjectIds :
             /\ id \notin Ids(db.projects)
             /\ CallAddMilestone(id) \/ CallAddResource(id)
             => db' = db /\ outcome'.raised]_vars

\* add_milestone has just been refused, on a store that was not locked and
\* holds one project, with a resource: the project named was never stored.
C14_Witness ==
    /\ outcome = [call |-> "add_milestone", raised |-> TRUE]
    /\ connections = 1
    /\ db.seq["projects"] = 1
    /\ db.projects # {}
    /\ db.resources # {}
    /\ db.milestones = {}

\* C15: whatever dict get_project_names returns, every stored project is
\* the value of one of its entries, so that every project can be selected
\* as the owner of a new milestone or resource, also when two projects
\* have the same name.
C15_EveryProjectSelectable ==
    \A projects \in get_project_names(Store) :
        \A p \in Store.projects :
            \E name \in DOMAIN projects : projects[name] = p["id"]

\* The kinds of entity of the keys of delete_confirm, with their tables.
Kinds == {"project", "milestone", "resource"}

TableOf(kind) ==
    CASE kind = "project" -> "projects"
      [] kind = "milestone" -> "milestones"
      [] kind = "resource" -> "resources"

\* The rows of table t with project_id P.
Dependents(d, t, P) ==
    IF t = "projects" THEN {} ELSE {r \in d[t] : r["project_id"] = P}

\* C16: deleting is a protocol of two steps for every entity E.  A run sets
\* a flag only for a stored entity, and changes no table.  A row leaves its
\* table only in a run that calls the delete function of its kind for a row
\* whose flag was set and is cleared by the run (Confirm), the row being
\* that row or, for a milestone or a resource, a dependent of the project
\* deleted.  A run that clears a flag and calls no delete function (Cancel)
\* changes no table.  And a row a run inserts has an id no row of its table
\* had before, and no flag set: a flag left set enables the deletion of no
\* entity created later.
C16_TwoStepDelete ==
    [][LET d == Store
           set == delete_confirm' \ delete_confirm
           cleared == delete_confirm \ delete_confirm'
           gone(t) == Ids(d[t]) \ Ids(db'[t])
           confirmed(kind) ==
               {id \in gone(TableOf(kind)) : Key(kind, id) \in cleared}
       IN  /\ \A k \in set : k[2] \in Ids(d[TableOf(k[1])]) /\ db' = d
           /\ Cardinality(cleared) <= 1
           /\ \A kind \in Kinds :
                 /\ \A id \in gone(TableOf(kind)) :
                       \/ /\ id \in confirmed(kind)
                          /\ outcome'.call = "delete_" \o kind
                       \/ /\ \E P \in confirmed("project") :
                                id \in Ids(Dependents(d, TableOf(kind), P))
                          /\ outcome'.call = "delete_project"
                 /\ outcome'.call = "delete_" \o kind /\ outcome' # outcome
                       => Cardinality(confirmed(kind)) = 1
                 /\ \A r \in db'[TableOf(kind)] :
                       r["id"] \notin Ids(d[TableOf(kind)])
                       => /\ r["id"] > db.seq[TableOf(kind)]
                          /\ Key(kind, r["id"]) \notin delete_confirm'
           /\ cleared # {} /\ outcome'.call = "none" => db' = d]_vars

\* A milestone has just been added while the flag of an earlier milestone,
\* deleted with its project, is still set.
C16_Witness ==
    /\ outcome.call = "add_milestone"
    /\ db.milestones # {}
    /\ \E M \in MilestoneIds :
          /\ Pending("milestone", M)
          /\ M \notin Ids(db.milestones)
          /\ \A m \in db.milestones : m["id"] > M

====
